---- MODULE Spec2Model ----
(***************************************************************************)
(* Polyomino row/column-target puzzle solver: placement generation         *)
(* (solver/placements.ts), backtracking search (solver/solve.ts) and the   *)
(* worker shell (solver/worker.ts, App.tsx), as a state machine.           *)
(*                                                                         *)
(* A mask (bigint bitset) is the set of its set bit positions: | is \cup,  *)
(* & is \cap, 0n is {}.  Arrays indexed from 0 in the source are functions *)
(* on 0..n-1; growing lists (placements, acc, solutions, queues) are       *)
(* sequences, so source index i is element i+1.                            *)
(***************************************************************************)
EXTENDS Integers, Sequences, FiniteSets, TLC

(* ------------------------------ bounds --------------------------------- *)
Width == 3
Height == 2
MaxCells == 6
MaxCount == 2
MaxCap == 3
ExtraIterations == 2
MaxClock == 202
MaxPosts == 2
ShapeGrid == 3
MaxShapeCells == 4
MaxClicks == 3

(* --------------------------- program constants -------------------------- *)
ProgressInterval == 100
MaxRotations == 4

(* ------------------------------ helpers --------------------------------- *)
Range(s) == {s[i] : i \in DOMAIN s}

RECURSIVE SumFn(_, _)
SumFn(f, n) == IF n = 0 THEN 0 ELSE f[n - 1] + SumFn(f, n - 1)

Zeros(n) == [i \in 0 .. n - 1 |-> 0]

(* --------------------------- model/bitboard.ts -------------------------- *)
cellToBit(x, y, width) == {y * width + x}

countBits(mask) == Cardinality(mask)

(* ------------------------- solver/placements.ts ------------------------- *)
Cell(x, y) == [x |-> x, y |-> y]

MinOf(S) == CHOOSE m \in S : \A v \in S : m <= v

MaxOf(S) == CHOOSE m \in S : \A v \in S : m >= v

\* comparator of normalizeCells' sort: (a.y - b.y) || (a.x - b.x) < 0
CellBefore(a, b) == IF a.y /= b.y THEN a.y < b.y ELSE a.x < b.x

\* Array.prototype.sort is stable: an element goes behind those that compare
\* before it and behind the earlier ones that compare equal to it.
SortedPosition(s, i) ==
    Cardinality({j \in DOMAIN s : CellBefore(s[j], s[i])})
        + Cardinality({j \in DOMAIN s :
                          /\ j < i
                          /\ ~CellBefore(s[j], s[i])
                          /\ ~CellBefore(s[i], s[j])})
        + 1

SortCells(s) ==
    [p \in DOMAIN s |-> s[CHOOSE i \in DOMAIN s : SortedPosition(s, i) = p]]

\* mutant: the shifted cells are not sorted
normalizeCells_Unsorted(cells) ==
    IF cells = <<>> THEN <<>>
    ELSE LET minX == MinOf({cells[i].x : i \in DOMAIN cells})
             minY == MinOf({cells[i].y : i \in DOMAIN cells})
         IN  [i \in DOMAIN cells |-> Cell(cells[i].x - minX, cells[i].y - minY)]

\* Math.min() of no arguments is Infinity, but then there is no cell to map.
normalizeCells(cells) ==
    IF cells = <<>> THEN <<>>
    ELSE LET minX == MinOf({cells[i].x : i \in DOMAIN cells})
             minY == MinOf({cells[i].y : i \in DOMAIN cells})
         IN  SortCells([i \in DOMAIN cells |->
                           Cell(cells[i].x - minX, cells[i].y - minY)])

\* mutant: the transform is a reflection (transpose), not a rotation
rotate90_Mirror(cells) == [i \in DOMAIN cells |-> Cell(cells[i].y, cells[i].x)]

rotate90(cells) == [i \in DOMAIN cells |-> Cell(cells[i].y, 0 - cells[i].x)]

\* "x,y;x,y;..." is an injective rendering of the coordinate sequence.
shapeKey(cells) == [i \in DOMAIN cells |-> <<cells[i].x, cells[i].y>>]

\* `current` at the start of iteration i of the loop of uniqueRotations
RECURSIVE RotateTimes(_, _)
RotateTimes(cells, i) ==
    IF i = 0 THEN cells ELSE rotate90(RotateTimes(cells, i - 1))

\* Iteration i pushes its normalized shape unless `seen` has its key, that
\* is unless an earlier iteration had the same key.
uniqueRotations(cells, allowRotate) ==
    LET maxRotations == IF allowRotate THEN MaxRotations ELSE 1
        normalized == [i \in 0 .. maxRotations - 1 |->
                          normalizeCells(RotateTimes(cells, i))]
        pushed == {i \in DOMAIN normalized :
                      \A j \in 0 .. i - 1 :
                          shapeKey(normalized[j]) /= shapeKey(normalized[i])}
    IN  [n \in 1 .. Cardinality(pushed) |->
            normalized[CHOOSE i \in pushed :
                           Cardinality({j \in pushed : j < i}) = n - 1]]

\* Loop tests offsetX <= limitX and offsetY <= limitY, with
\* limit = dim - (max + 1).  For a shape with no cell Math.max() is
\* -Infinity, the limit is +Infinity and the test is always true.
LimitIsInfinite(shape) == shape = <<>>

LimitX(shape, width) ==
    width - (MaxOf({shape[i].x : i \in DOMAIN shape}) + 1)

LimitY(shape, height) ==
    height - (MaxOf({shape[i].y : i \in DOMAIN shape}) + 1)

OffsetXInRange(offsetX, shape, width) ==
    LimitIsInfinite(shape) \/ offsetX <= LimitX(shape, width)

OffsetYInRange(offsetY, shape, height) ==
    LimitIsInfinite(shape) \/ offsetY <= LimitY(shape, height)

\* mutant: the row delta is counted at the shape's row, not the shifted one
RECURSIVE PlaceCells_UnshiftedRow(_, _, _, _, _, _, _)
PlaceCells_UnshiftedRow(shape, k, offsetX, offsetY, width, blockedMask, st) ==
    IF k > Len(shape) THEN st
    ELSE LET x == shape[k].x + offsetX
             y == shape[k].y + offsetY
             bit == cellToBit(x, y, width)
         IN  IF blockedMask \cap bit /= {}
             THEN [st EXCEPT !.valid = FALSE]
             ELSE PlaceCells_UnshiftedRow(shape, k + 1, offsetX, offsetY, width,
                             blockedMask,
                             [st EXCEPT !.mask = @ \cup bit,
                                        !.rowDelta[shape[k].y] = @ + 1,
                                        !.colDelta[x] = @ + 1])

\* The body of the offset loops for one (shape, offsetX, offsetY): the cells
\* are visited in order from cell k; a blocked cell clears valid and breaks.
RECURSIVE PlaceCells(_, _, _, _, _, _, _)
PlaceCells(shape, k, offsetX, offsetY, width, blockedMask, st) ==
    IF k > Len(shape) THEN st
    ELSE LET x == shape[k].x + offsetX
             y == shape[k].y + offsetY
             bit == cellToBit(x, y, width)
         IN  IF blockedMask \cap bit /= {}
             THEN [st EXCEPT !.valid = FALSE]
             ELSE PlaceCells(shape, k + 1, offsetX, offsetY, width, blockedMask,
                             [st EXCEPT !.mask = @ \cup bit,
                                        !.rowDelta[y] = @ + 1,
                                        !.colDelta[x] = @ + 1])

TryOffset(shape, offsetX, offsetY, width, height, blockedMask) ==
    PlaceCells(shape, 1, offsetX, offsetY, width, blockedMask,
               [valid |-> TRUE, mask |-> {},
                rowDelta |-> Zeros(height), colDelta |-> Zeros(width)])

MakePlacement(pieceId, st) ==
    [pieceId  |-> pieceId,
     mask     |-> st.mask,
     rowDelta |-> st.rowDelta,
     colDelta |-> st.colDelta]

\* generatePlacementsForPiece for loops known to end (a shape with cells):
\* offsets in row-major order within a shape, shapes in rotation order.
RECURSIVE OffsetsLoop(_, _, _, _, _, _, _, _)
OffsetsLoop(placements, pieceId, shape, offsetX, offsetY, width, height, blockedMask) ==
    IF ~OffsetYInRange(offsetY, shape, height) THEN placements
    ELSE IF ~OffsetXInRange(offsetX, shape, width)
    THEN OffsetsLoop(placements, pieceId, shape, 0, offsetY + 1,
                     width, height, blockedMask)
    ELSE LET st == TryOffset(shape, offsetX, offsetY, width, height, blockedMask)
         IN  OffsetsLoop(IF st.valid
                             THEN Append(placements, MakePlacement(pieceId, st))
                             ELSE placements,
                         pieceId, shape, offsetX + 1, offsetY,
                         width, height, blockedMask)

RECURSIVE ShapesLoop(_, _, _, _, _, _, _)
ShapesLoop(placements, pieceId, rotations, k, width, height, blockedMask) ==
    IF k > Len(rotations) THEN placements
    ELSE ShapesLoop(OffsetsLoop(placements, pieceId, rotations[k], 0, 0,
                                width, height, blockedMask),
                    pieceId, rotations, k + 1, width, height, blockedMask)

generatePlacementsForPiece(piece, width, height, blockedMask) ==
    ShapesLoop(<<>>, piece.id, uniqueRotations(piece.cells, piece.allowRotate),
               1, width, height, blockedMask)

(* ------------------------------- state ---------------------------------- *)
VARIABLES
    puzzle,               \* PuzzleDefinition handed to solvePuzzle
    maxSolutions,         \* options.maxSolutions
    hasProgress,          \* options.onProgress is defined
    pc,                   \* position of the (single-threaded) worker / solver
    genPiece,             \* puzzle.pieces.forEach index (1-based)
    current, rotIdx,      \* uniqueRotations: current, loop variable i
    rotations,            \* uniqueRotations(...) of the piece being generated
    shapeIdx,             \* rotations.forEach index (1-based)
    offsetX, offsetY,     \* loop counters of generatePlacementsForPiece
    placements,           \* list under construction for the current piece
    placementsById,       \* Map piece id -> Placement[]
    instances,            \* sorted PieceInstance[]
    rowOcc, colOcc,       \* occupancy counters
    usedPlacementIndices,
    stack,                \* dfs call frames: index, occupiedMask, loop variable i
    acc,                  \* the shared accumulator array
    solutions,            \* solutions collected by solvePuzzle
    nodes,
    now, lastReport,      \* performance.now() as last read, lastReport
    events,               \* callbacks invoked / messages posted, in order
    stopRequested,        \* what shouldStop() returns
    inbox,                \* messages posted to the worker, in order
    handled,              \* how many of them its onmessage has taken
    appSolutions,         \* App: the solutions state
    running,              \* App: progress.running
    delivered             \* how many worker messages the App has handled

solverVars == <<puzzle, maxSolutions, hasProgress, pc, genPiece, current, rotIdx,
                rotations, shapeIdx, offsetX, offsetY, placements, placementsById,
                instances, rowOcc, colOcc, usedPlacementIndices, stack, acc,
                solutions, nodes, now, lastReport, events>>

vars == <<puzzle, maxSolutions, hasProgress, pc, genPiece, current, rotIdx,
          rotations, shapeIdx, offsetX, offsetY, placements, placementsById,
          instances, rowOcc, colOcc, usedPlacementIndices, stack, acc,
          solutions, nodes, now, lastReport, events, stopRequested, inbox,
          handled, appSolutions, running, delivered>>

appVars == <<appSolutions, running, delivered>>

\* useState([]), useState({..., running: false}); no message handled yet
AppMounted ==
    /\ appSolutions = <<>>
    /\ running = FALSE
    /\ delivered = 0

genVars == <<genPiece, current, rotIdx, rotations, shapeIdx, offsetX, offsetY,
             placements>>

dfsVars == <<instances, rowOcc, colOcc, usedPlacementIndices, stack, acc,
             solutions, nodes, now, lastReport>>

(* --------------------------- solver/solve.ts ---------------------------- *)
\* mutant: the fixed cells are not counted
computeInitialCounts_Empty(mask, width, height) ==
    [row |-> [y \in 0 .. height - 1 |-> 0],
     col |-> [x \in 0 .. width - 1 |-> 0]]

computeInitialCounts(mask, width, height) ==
    [row |-> [y \in 0 .. height - 1 |->
                 Cardinality({x \in 0 .. width - 1 : (y * width + x) \in mask})],
     col |-> [x \in 0 .. width - 1 |->
                 Cardinality({y \in 0 .. height - 1 : (y * width + x) \in mask})]]

RECURSIVE RemainingCells(_, _)
RemainingCells(insts, startIndex) ==
    IF startIndex >= Len(insts) THEN 0
    ELSE Len(insts[startIndex + 1].piece.cells)
             + RemainingCells(insts, startIndex + 1)

NeededCells(rOcc, rowTargets) ==
    SumFn([r \in DOMAIN rowTargets |-> rowTargets[r] - rOcc[r]],
          Cardinality(DOMAIN rowTargets))

\* mutant: only the cells of the next instance are counted
canReachTargets_NextOnly(rOcc, cOcc, rowTargets, colTargets, insts, startIndex) ==
    (IF startIndex >= Len(insts) THEN 0
     ELSE Len(insts[startIndex + 1].piece.cells)) >= NeededCells(rOcc, rowTargets)

\* mutant: the prune also cuts a branch whose pieces fit the deficit exactly
canReachTargets_Strict(rOcc, cOcc, rowTargets, colTargets, insts, startIndex) ==
    RemainingCells(insts, startIndex) > NeededCells(rOcc, rowTargets)

canReachTargets(rOcc, cOcc, rowTargets, colTargets, insts, startIndex) ==
    RemainingCells(insts, startIndex) >= NeededCells(rOcc, rowTargets)

\* puzzle.pieces.flatMap: count instances of each piece, in piece order
RECURSIVE ExpandInstances(_, _)
ExpandInstances(pieces, k) ==
    IF k > Len(pieces) THEN <<>>
    ELSE [n \in 1 .. pieces[k].count |->
             [piece |-> pieces[k], prevSamePieceIndex |-> 0 - 1]]
         \o ExpandInstances(pieces, k + 1)

PlacementsOf(byId, inst) == byId[inst.piece.id]

\* Array.prototype.sort is stable: insert after every element that is not
\* longer.
RECURSIVE InsertInstance(_, _, _)
InsertInstance(inst, s, byId) ==
    IF s = <<>> THEN <<inst>>
    ELSE IF Len(PlacementsOf(byId, inst)) < Len(PlacementsOf(byId, Head(s)))
    THEN <<inst>> \o s
    ELSE <<Head(s)>> \o InsertInstance(inst, Tail(s), byId)

RECURSIVE SortInstances(_, _)
SortInstances(s, byId) ==
    IF s = <<>> THEN <<>>
    ELSE InsertInstance(s[Len(s)], SortInstances(SubSeq(s, 1, Len(s) - 1), byId),
                        byId)

\* lastIndexByPieceId loop: the nearest earlier instance with the same id
LinkInstances(s) ==
    [i \in DOMAIN s |->
        LET earlier == {j \in 1 .. i - 1 : s[j].piece.id = s[i].piece.id}
        IN  [s[i] EXCEPT !.prevSamePieceIndex =
                 IF earlier = {} THEN 0 - 1 ELSE MaxOf(earlier) - 1]]

BuildInstances(pieces, byId) ==
    LinkInstances(SortInstances(ExpandInstances(pieces, 1), byId))

Top == stack[Len(stack)]

\* mutant: the terminal check forgets the columns
TargetsMet_RowsOnly ==
    \A i \in DOMAIN rowOcc : rowOcc[i] = puzzle.rowTargets[i]

TargetsMet ==
    /\ \A i \in DOMAIN rowOcc : rowOcc[i] = puzzle.rowTargets[i]
    /\ \A i \in DOMAIN colOcc : colOcc[i] = puzzle.colTargets[i]

\* mutant: the cap test is off by one
CapReached_Late == Len(solutions) > maxSolutions

CapReached == Len(solutions) >= maxSolutions

\* mutant: the predicate is polled at the root call only
ShouldStop_RootOnly == stopRequested /\ Len(stack) = 1

\* shouldStop?.()
ShouldStop == stopRequested

\* mutant: no symmetry breaking
StartIdx_Zero(index) == 0

\* mutant: the loop starts at the index the earlier instance uses
StartIdx_Same(index) ==
    LET prev == instances[index + 1].prevSamePieceIndex
    IN  IF prev >= 0 THEN usedPlacementIndices[prev] ELSE 0

StartIdx(index) ==
    LET prev == instances[index + 1].prevSamePieceIndex
    IN  IF prev >= 0 THEN usedPlacementIndices[prev] + 1 ELSE 0

CurrentPlacements(index) == PlacementsOf(placementsById, instances[index + 1])

Conflicts(placement, occupiedMask) == placement.mask \cap occupiedMask /= {}

\* mutant: the columns are not tested
OverCapacity_RowsOnly(placement) ==
    \E r \in 0 .. puzzle.height - 1 :
        rowOcc[r] + placement.rowDelta[r] > puzzle.rowTargets[r]

OverCapacity(placement) ==
    \/ \E r \in 0 .. puzzle.height - 1 :
           rowOcc[r] + placement.rowDelta[r] > puzzle.rowTargets[r]
    \/ \E c \in 0 .. puzzle.width - 1 :
           colOcc[c] + placement.colDelta[c] > puzzle.colTargets[c]

ClockSteps == {ProgressInterval, ProgressInterval + 1}

ClockReads ==
    IF hasProgress
    THEN {now} \cup {now + d : d \in {e \in ClockSteps : now + e <= MaxClock}}
    ELSE {now}

(* ---------------- solvePuzzle: placement generation -------------------- *)
BlockedOrFixed == puzzle.blockedMask \cup puzzle.fixedMask

\* puzzle.pieces.forEach: next piece, or on to the instance setup
GenPieceNext ==
    /\ pc = "genPiece"
    /\ IF genPiece > Len(puzzle.pieces)
       THEN /\ pc' = "setup"
            /\ UNCHANGED <<current, rotIdx, rotations>>
       ELSE /\ rotations' = <<>>
            /\ current' = puzzle.pieces[genPiece].cells
            /\ rotIdx' = 0
            /\ pc' = "genRotate"
    /\ UNCHANGED <<puzzle, maxSolutions, hasProgress, genPiece, shapeIdx, offsetX,
                   offsetY, placements, placementsById, events, stopRequested,
                   inbox, handled>>
    /\ UNCHANGED dfsVars
    /\ UNCHANGED appVars

\* uniqueRotations: for (let i = 0; i < maxRotations; i += 1) { ... }
GenRotate ==
    /\ pc = "genRotate"
    /\ IF rotIdx >= (IF puzzle.pieces[genPiece].allowRotate THEN MaxRotations ELSE 1)
       THEN /\ shapeIdx' = 1
            /\ placements' = <<>>
            /\ pc' = "genShape"
            /\ UNCHANGED <<current, rotIdx, rotations>>
       ELSE /\ LET normalized == normalizeCells(current)
                   key == shapeKey(normalized)
                   seen == \E k \in DOMAIN rotations : shapeKey(rotations[k]) = key
               IN  rotations' = IF seen THEN rotations
                                ELSE Append(rotations, normalized)
            /\ current' = rotate90(current)
            /\ rotIdx' = rotIdx + 1
            /\ UNCHANGED <<pc, shapeIdx, placements>>
    /\ UNCHANGED <<puzzle, maxSolutions, hasProgress, genPiece, offsetX, offsetY,
                   placementsById, events, stopRequested, inbox, handled>>
    /\ UNCHANGED dfsVars
    /\ UNCHANGED appVars

\* rotations.forEach: next shape, or return the list and store it in the Map
GenShapeNext ==
    /\ pc = "genShape"
    /\ IF shapeIdx > Len(rotations)
       THEN /\ placementsById' =
                   [placementsById EXCEPT ![puzzle.pieces[genPiece].id] = placements]
            /\ genPiece' = genPiece + 1
            /\ pc' = "genPiece"
            /\ UNCHANGED offsetY
       ELSE /\ offsetY' = 0
            /\ pc' = "genY"
            /\ UNCHANGED <<placementsById, genPiece>>
    /\ UNCHANGED <<puzzle, maxSolutions, hasProgress, current, rotIdx, rotations,
                   shapeIdx, offsetX,
                   placements, events, stopRequested, inbox, handled>>
    /\ UNCHANGED dfsVars
    /\ UNCHANGED appVars

\* for (offsetY ...; offsetY <= limitY; ...)
GenRowTest ==
    /\ pc = "genY"
    /\ IF OffsetYInRange(offsetY, rotations[shapeIdx], puzzle.height)
       THEN /\ offsetX' = 0
            /\ pc' = "genX"
            /\ UNCHANGED shapeIdx
       ELSE /\ shapeIdx' = shapeIdx + 1
            /\ pc' = "genShape"
            /\ UNCHANGED offsetX
    /\ UNCHANGED <<puzzle, maxSolutions, hasProgress, genPiece, current, rotIdx,
          rotations, offsetY,
                   placements, placementsById, events, stopRequested, inbox,
                   handled>>
    /\ UNCHANGED dfsVars
    /\ UNCHANGED appVars

\* for (offsetX ...; offsetX <= limitX; ...)
GenColTest ==
    /\ pc = "genX"
    /\ IF OffsetXInRange(offsetX, rotations[shapeIdx], puzzle.width)
       THEN /\ pc' = "genBody"
            /\ UNCHANGED offsetY
       ELSE /\ offsetY' = offsetY + 1
            /\ pc' = "genY"
    /\ UNCHANGED <<puzzle, maxSolutions, hasProgress, genPiece, current, rotIdx,
          rotations, shapeIdx,
                   offsetX, placements, placementsById, events, stopRequested,
                   inbox, handled>>
    /\ UNCHANGED dfsVars
    /\ UNCHANGED appVars

\* The counter and the list are unbounded in the source.  ExtraIterations past
\* the board width the model keeps them where they are: that offsetX stands
\* for itself or more, and the list for its first entries.
Saturate(n) ==
    IF n > puzzle.width + ExtraIterations THEN puzzle.width + ExtraIterations
    ELSE n

GenBody ==
    /\ pc = "genBody"
    /\ LET st == TryOffset(rotations[shapeIdx], offsetX, offsetY,
                           puzzle.width, puzzle.height, BlockedOrFixed)
       IN  placements' =
               IF st.valid /\ offsetX < puzzle.width + ExtraIterations
               THEN Append(placements,
                           MakePlacement(puzzle.pieces[genPiece].id, st))
               ELSE placements
    /\ offsetX' = Saturate(offsetX + 1)
    /\ pc' = "genX"
    /\ UNCHANGED <<puzzle, maxSolutions, hasProgress, genPiece, current, rotIdx,
          rotations, shapeIdx,
                   offsetY, placementsById, events, stopRequested, inbox, handled>>
    /\ UNCHANGED dfsVars
    /\ UNCHANGED appVars

(* ------------------- solvePuzzle: instances and root call ---------------- *)
Setup ==
    /\ pc = "setup"
    /\ instances' = BuildInstances(puzzle.pieces, placementsById)
    /\ LET initialCounts ==
               computeInitialCounts(puzzle.fixedMask, puzzle.width, puzzle.height)
       IN  /\ rowOcc' = initialCounts.row
           /\ colOcc' = initialCounts.col
    /\ nodes' = 0
    /\ lastReport' = 0
    /\ usedPlacementIndices' =
           [j \in 0 .. Len(instances') - 1 |-> 0 - 1]
    /\ stack' = <<[index |-> 0, occupiedMask |-> puzzle.fixedMask, i |-> 0]>>
    /\ acc' = <<>>
    /\ pc' = "call"
    /\ UNCHANGED <<puzzle, maxSolutions, hasProgress, placementsById, solutions,
                   now, events, stopRequested, inbox, handled>>
    /\ UNCHANGED genVars
    /\ UNCHANGED appVars

(* ------------------------------- dfs ------------------------------------ *)
\* mutant: a snapshot as soon as the interval has elapsed
ProgressEvents_AtInterval(t) ==
    IF hasProgress /\ t - lastReport >= ProgressInterval
    THEN <<[type |-> "progress", at |-> t, nodes |-> nodes + 1,
            solutions |-> Len(solutions)]>>
    ELSE <<>>

\* if (onProgress && now - lastReport > 100) onProgress({nodes, solutions});
\* `at` is the clock value read at this entry, the moment of the call
ProgressEvents(t) ==
    IF hasProgress /\ t - lastReport > ProgressInterval
    THEN <<[type |-> "progress", at |-> t, nodes |-> nodes + 1,
            solutions |-> Len(solutions)]>>
    ELSE <<>>

\* entry of dfs(index, occupiedMask, acc) up to the start of the for loop
DfsEnter ==
    /\ pc = "call"
    /\ IF ShouldStop
       THEN /\ pc' = "ret"
            /\ UNCHANGED <<nodes, now, lastReport, solutions, events, stack>>
       ELSE \E t \in ClockReads :
            /\ nodes' = nodes + 1
            /\ now' = t
            /\ lastReport' = IF ProgressEvents(t) /= <<>> THEN t ELSE lastReport
            /\ IF Top.index = Len(instances)
               THEN /\ IF TargetsMet
                       THEN /\ solutions' = Append(solutions, acc)
                            /\ events' = events \o ProgressEvents(t)
                                   \o <<[type |-> "solution", solution |-> acc]>>
                       ELSE /\ events' = events \o ProgressEvents(t)
                            /\ UNCHANGED solutions
                    /\ pc' = "ret"
                    /\ UNCHANGED stack
               ELSE /\ events' = events \o ProgressEvents(t)
                    /\ UNCHANGED solutions
                    /\ IF CapReached
                       THEN pc' = "ret" /\ UNCHANGED stack
                       ELSE IF ~canReachTargets(rowOcc, colOcc, puzzle.rowTargets,
                                                puzzle.colTargets, instances,
                                                Top.index)
                       THEN pc' = "ret" /\ UNCHANGED stack
                       ELSE /\ stack' = [stack EXCEPT ![Len(stack)].i =
                                             StartIdx(Top.index)]
                            /\ pc' = "loop"
    /\ UNCHANGED <<puzzle, maxSolutions, hasProgress, placementsById, instances,
                   rowOcc, colOcc, usedPlacementIndices, acc, stopRequested,
                   inbox, handled>>
    /\ UNCHANGED genVars
    /\ UNCHANGED appVars

\* i < placements.length fails: dfs falls off the loop and returns
DfsLoopExit ==
    /\ pc = "loop"
    /\ Top.i >= Len(CurrentPlacements(Top.index))
    /\ pc' = "ret"
    /\ UNCHANGED <<puzzle, maxSolutions, hasProgress, placementsById, events,
                   stopRequested, inbox, handled>>
    /\ UNCHANGED dfsVars
    /\ UNCHANGED genVars
    /\ UNCHANGED appVars

\* continue: the placement overlaps or would exceed a row or column target
DfsSkip ==
    /\ pc = "loop"
    /\ Top.i < Len(CurrentPlacements(Top.index))
    /\ LET placement == CurrentPlacements(Top.index)[Top.i + 1]
       IN  Conflicts(placement, Top.occupiedMask) \/ OverCapacity(placement)
    /\ stack' = [stack EXCEPT ![Len(stack)].i = @ + 1]
    /\ UNCHANGED <<puzzle, maxSolutions, hasProgress, pc, placementsById,
                   instances, rowOcc, colOcc, usedPlacementIndices, acc,
                   solutions, nodes, now, lastReport, events, stopRequested,
                   inbox, handled>>
    /\ UNCHANGED genVars
    /\ UNCHANGED appVars

\* apply the deltas, push the placement, record its index and recurse
DfsPlace ==
    /\ pc = "loop"
    /\ Top.i < Len(CurrentPlacements(Top.index))
    /\ LET placement == CurrentPlacements(Top.index)[Top.i + 1]
       IN  /\ ~Conflicts(placement, Top.occupiedMask)
           /\ ~OverCapacity(placement)
           /\ rowOcc' = [r \in DOMAIN rowOcc |-> rowOcc[r] + placement.rowDelta[r]]
           /\ colOcc' = [c \in DOMAIN colOcc |-> colOcc[c] + placement.colDelta[c]]
           /\ acc' = Append(acc, placement)
           /\ usedPlacementIndices' =
                  [usedPlacementIndices EXCEPT ![Top.index] = Top.i]
           /\ stack' = Append(stack,
                  [index |-> Top.index + 1,
                   occupiedMask |-> Top.occupiedMask \cup placement.mask,
                   i |-> 0])
    /\ pc' = "call"
    /\ UNCHANGED <<puzzle, maxSolutions, hasProgress, placementsById, instances,
                   solutions, nodes, now, lastReport, events, stopRequested,
                   inbox, handled>>
    /\ UNCHANGED genVars
    /\ UNCHANGED appVars

\* mutant: the deltas are not taken back
Undo_Kept(occ, delta) == occ

\* rowOcc[r] -= placement.rowDelta[r], colOcc[c] -= placement.colDelta[c]
Undo(occ, delta) == [r \in DOMAIN occ |-> occ[r] - delta[r]]

\* a recursive call returns into its caller's loop: undo, then the cap check
DfsReturn ==
    /\ pc = "ret"
    /\ Len(stack) > 1
    /\ LET caller == stack[Len(stack) - 1]
           placement == CurrentPlacements(caller.index)[caller.i + 1]
       IN  /\ usedPlacementIndices' =
                  [usedPlacementIndices EXCEPT ![caller.index] = 0 - 1]
           /\ acc' = SubSeq(acc, 1, Len(acc) - 1)
           /\ rowOcc' = Undo(rowOcc, placement.rowDelta)
           /\ colOcc' = Undo(colOcc, placement.colDelta)
           /\ IF CapReached
              THEN /\ stack' = SubSeq(stack, 1, Len(stack) - 1)
                   /\ pc' = "ret"
              ELSE /\ stack' = [SubSeq(stack, 1, Len(stack) - 1)
                                   EXCEPT ![Len(stack) - 1].i = @ + 1]
                   /\ pc' = "loop"
    /\ UNCHANGED <<puzzle, maxSolutions, hasProgress, placementsById, instances,
                   solutions, nodes, now, lastReport, events, stopRequested,
                   inbox, handled>>
    /\ UNCHANGED genVars
    /\ UNCHANGED appVars

\* the root call dfs(0, fixedMask, []) returns: return solutions
SolveReturn ==
    /\ pc = "ret"
    /\ Len(stack) = 1
    /\ stack' = <<>>
    /\ pc' = "done"
    /\ UNCHANGED <<puzzle, maxSolutions, hasProgress, placementsById, instances,
                   rowOcc, colOcc, usedPlacementIndices, acc, solutions, nodes,
                   now, lastReport, events, stopRequested, inbox, handled>>
    /\ UNCHANGED genVars
    /\ UNCHANGED appVars

\* The caller's cancellation predicate starts to return true.  It is read
\* at the entry of dfs only, so it changes right before an entry.
RequestStop ==
    /\ pc = "call"
    /\ ~stopRequested
    /\ stopRequested' = TRUE
    /\ UNCHANGED solverVars
    /\ UNCHANGED <<inbox, handled>>
    /\ UNCHANGED appVars

(* ------------------------------ inputs ---------------------------------- *)
PieceDef(id, cells, count, allowRotate) ==
    [id |-> id, cells |-> cells, count |-> count, allowRotate |-> allowRotate]

\* cells as the piece editor's grid gives them: anywhere in the grid
Monomino == <<Cell(0, 0)>>
Domino == <<Cell(1, 0), Cell(2, 0)>>
Tromino == <<Cell(1, 1), Cell(1, 2), Cell(2, 2)>>
Shapes == {Monomino, Domino, Tromino}

\* every board of at most Width x Height and at most MaxCells cells, with
\* every pair of target vectors of equal sum (the caller's first check)
Boards ==
    UNION {[width : {w}, height : {h},
            rowTargets : [0 .. h - 1 -> 0 .. w],
            colTargets : [0 .. w - 1 -> 0 .. h]]
              : <<w, h>> \in {d \in (1 .. Width) \X (1 .. Height) :
                                 d[1] * d[2] <= MaxCells}}

BalancedBoards ==
    {b \in Boards : SumFn(b.rowTargets, b.height) = SumFn(b.colTargets, b.width)}

Puzzle(board, blockedMask, fixedMask, pieces) ==
    [width |-> board.width, height |-> board.height,
     rowTargets |-> board.rowTargets, colTargets |-> board.colTargets,
     blockedMask |-> blockedMask, fixedMask |-> fixedMask, pieces |-> pieces]

\* no piece, one piece definition, or one followed by a monomino
PieceLists ==
    {<<>>}
    \cup {<<PieceDef(1, sh, c, r)>> :
              sh \in Shapes, c \in 1 .. MaxCount, r \in BOOLEAN}
    \cup {<<PieceDef(1, sh, c, TRUE), PieceDef(2, Monomino, 1, TRUE)>> :
              sh \in Shapes, c \in 1 .. MaxCount}

\* <<blockedMask, fixedMask>>: nothing, the first cell fixed, the last blocked
MaskPairs(board) ==
    {<<{}, {}>>, <<{}, {0}>>, <<{board.width * board.height - 1}, {}>>}

Puzzles ==
    UNION {{Puzzle(b, m[1], m[2], ps) : m \in MaskPairs(b), ps \in PieceLists}
              : b \in BalancedBoards}

\* Inputs of the placement generation: also a chiral piece (its mirror image
\* is no rotation of it) and a piece with no cell.
Tetromino == <<Cell(1, 0), Cell(2, 0), Cell(0, 1), Cell(1, 1)>>
NoCells == <<>>

GenPieceLists ==
    {<<PieceDef(1, sh, 1, r)>> :
         sh \in Shapes \cup {Tetromino, NoCells}, r \in BOOLEAN}
    \cup {<<PieceDef(1, Domino, 1, TRUE), PieceDef(2, sh, 1, TRUE)>> :
              sh \in {Monomino, NoCells}}

\* every board size, the targets asking for every cell
FullBoards ==
    {b \in Boards : /\ \A y \in 0 .. b.height - 1 : b.rowTargets[y] = b.width
                    /\ \A x \in 0 .. b.width - 1 : b.colTargets[x] = b.height}

\* <<blockedMask, fixedMask>>: at most one cell blocked, the first cell fixed
\* or not
GenMaskPairs(board) ==
    ({{}} \cup {{c} : c \in 0 .. board.width * board.height - 1})
        \X {{}, {0}}

GenPuzzles ==
    UNION {{Puzzle(b, m[1], m[2], ps) : m \in GenMaskPairs(b), ps \in GenPieceLists}
              : b \in FullBoards}

\* maxSolutions: the smallest cap and the largest of the model
Caps == {1, MaxCap}

GeneratedPlacements(pz) ==
    [id \in {pz.pieces[k].id : k \in DOMAIN pz.pieces} |->
        generatePlacementsForPiece(
            CHOOSE q \in Range(pz.pieces) : q.id = id,
            pz.width, pz.height, pz.blockedMask \cup pz.fixedMask)]

\* solvePuzzle has been called and has generated the placements
SolverStart(pz, cap, progress) ==
    /\ puzzle = pz
    /\ maxSolutions = cap
    /\ hasProgress = progress
    /\ pc = "setup"
    /\ genPiece = Len(pz.pieces) + 1
    /\ rotations = <<>>
    /\ current = <<>>
    /\ rotIdx = 0
    /\ shapeIdx = 1
    /\ offsetX = 0
    /\ offsetY = 0
    /\ placements = <<>>
    /\ placementsById = GeneratedPlacements(pz)
    /\ instances = <<>>
    /\ rowOcc = Zeros(pz.height)
    /\ colOcc = Zeros(pz.width)
    /\ usedPlacementIndices = <<>>
    /\ stack = <<>>
    /\ acc = <<>>
    /\ solutions = <<>>
    /\ nodes = 0
    /\ now = 0
    /\ lastReport = 0
    /\ events = <<>>

\* solvePuzzle has been called: const placementsById = new Map()
SolverEntry(pz, cap, progress) ==
    /\ puzzle = pz
    /\ maxSolutions = cap
    /\ hasProgress = progress
    /\ pc = "genPiece"
    /\ genPiece = 1
    /\ rotations = <<>>
    /\ current = <<>>
    /\ rotIdx = 0
    /\ shapeIdx = 1
    /\ offsetX = 0
    /\ offsetY = 0
    /\ placements = <<>>
    /\ placementsById = [id \in {pz.pieces[k].id : k \in DOMAIN pz.pieces} |-> <<>>]
    /\ instances = <<>>
    /\ rowOcc = Zeros(pz.height)
    /\ colOcc = Zeros(pz.width)
    /\ usedPlacementIndices = <<>>
    /\ stack = <<>>
    /\ acc = <<>>
    /\ solutions = <<>>
    /\ nodes = 0
    /\ now = 0
    /\ lastReport = 0
    /\ events = <<>>

Init ==
    /\ \E pz \in Puzzles, cap \in Caps : SolverStart(pz, cap, FALSE)
    /\ stopRequested = FALSE
    /\ inbox = <<>>
    /\ handled = 0
    /\ AppMounted

Search ==
    \/ Setup
    \/ DfsEnter
    \/ DfsLoopExit
    \/ DfsSkip
    \/ DfsPlace
    \/ DfsReturn
    \/ SolveReturn

Next == Search \/ RequestStop

Spec == Init /\ [][Next]_vars

(* ------------------------- properties of solutions ----------------------- *)
RowBits(mask, y, width) == Cardinality({b \in mask : b \div width = y})
ColBits(mask, x, width) == Cardinality({b \in mask : b % width = x})

PairwiseDisjoint(sol) ==
    \A i, j \in DOMAIN sol : i < j => sol[i].mask \cap sol[j].mask = {}

Covered(placementSet) ==
    UNION {p.mask : p \in placementSet} \cup puzzle.fixedMask

MeetsTargets(placementSet) ==
    /\ \A y \in 0 .. puzzle.height - 1 :
           RowBits(Covered(placementSet), y, puzzle.width) = puzzle.rowTargets[y]
    /\ \A x \in 0 .. puzzle.width - 1 :
           ColBits(Covered(placementSet), x, puzzle.width) = puzzle.colTargets[x]

ValidSolution(sol) == PairwiseDisjoint(sol) /\ MeetsTargets(Range(sol))

Emitted == SelectSeq(events, LAMBDA e : e.type = "solution")

\* C1: every solution returned by solvePuzzle and every solution passed to
\* onSolution has pairwise disjoint masks whose per-row and per-column bit
\* counts, combined with fixedMask, equal rowTargets and colTargets.
C1_SolutionsCorrect ==
    /\ \A k \in DOMAIN solutions : ValidSolution(solutions[k])
    /\ \A k \in DOMAIN Emitted : ValidSolution(Emitted[k].solution)

C1_Witness ==
    /\ pc = "done"
    /\ puzzle.fixedMask /= {}
    /\ \E k \in DOMAIN solutions : Len(solutions[k]) >= 2

\* Every way of choosing one generated placement per piece instance with
\* pairwise disjoint masks, as the set of the placements chosen.
RECURSIVE ChoicesFrom(_, _)
ChoicesFrom(j, occupied) ==
    IF j > Len(instances) THEN {{}}
    ELSE UNION {{c \cup {p} : c \in ChoicesFrom(j + 1, occupied \cup p.mask)}
                  : p \in {q \in Range(CurrentPlacements(j - 1)) :
                              q.mask \cap occupied = {}}}

ValidCollections == {c \in ChoicesFrom(1, {}) : MeetsTargets(c)}

Returned == pc = "done"

\* C2: when the search is not cancelled and there are fewer valid solutions
\* than maxSolutions, the returned list holds, for every valid choice of one
\* placement per instance, a solution made of exactly those placements.
C2_FindsAll ==
    (Returned /\ ~stopRequested /\ Cardinality(ValidCollections) < maxSolutions)
        => \A c \in ValidCollections :
               \E k \in DOMAIN solutions : Range(solutions[k]) = c

C2_Witness ==
    /\ Returned
    /\ ~stopRequested
    /\ Cardinality(ValidCollections) >= 2
    /\ Cardinality(ValidCollections) < maxSolutions
    /\ Len(instances) >= 2

\* C3: the returned list never holds two solutions made of the same set of
\* placements (differing only in which same-piece instance took which).
C3_NoPermutedDuplicates ==
    \A i, j \in DOMAIN solutions :
        i < j => Range(solutions[i]) /= Range(solutions[j])

C3_Witness ==
    /\ Returned
    /\ Len(solutions) >= 2
    /\ \E k \in DOMAIN instances : instances[k].prevSamePieceIndex >= 0

\* C4: the number of solutions collected, and of onSolution calls, never
\* exceeds maxSolutions, at any point of the search and at return.
C4_CapRespected ==
    /\ Len(solutions) <= maxSolutions
    /\ Len(Emitted) <= maxSolutions

C4_Witness ==
    /\ Returned
    /\ ~stopRequested
    /\ Len(solutions) = maxSolutions
    /\ Cardinality(ValidCollections) > maxSolutions

\* A measure of the work the search has left: per call frame, from the root,
\* the iterations its loop has left (a frame inside a recursive call counts
\* the current one as begun), as digits of a number in base RankBase.
RankBase ==
    3 * MaxOf({0} \cup {Len(placementsById[id]) : id \in DOMAIN placementsById}) + 3

FrameLen(k) ==
    IF stack[k].index < Len(instances)
    THEN Len(CurrentPlacements(stack[k].index)) ELSE 0

FrameRank(k) ==
    IF k < Len(stack) THEN 3 * (FrameLen(k) - stack[k].i)
    ELSE IF pc = "call" THEN 3 * FrameLen(k) + 2
    ELSE IF pc = "loop" THEN 3 * (FrameLen(k) - stack[k].i) + 1
    ELSE 0

RECURSIVE RankUpTo(_)
RankUpTo(k) == IF k = 0 THEN 0 ELSE RankUpTo(k - 1) * RankBase + FrameRank(k)

RECURSIVE Power(_, _)
Power(base, n) == IF n = 0 THEN 1 ELSE base * Power(base, n - 1)

Rank ==
    IF pc = "done" THEN 0
    ELSE 1 + RankUpTo(Len(stack))
                 * Power(RankBase, Len(instances) + 1 - Len(stack))

\* C5: once shouldStop returns true, no further node is counted and no
\* further solution is collected or emitted, and solvePuzzle returns with the
\* solutions it had: every step it can still take brings it closer to its
\* return, and it can take one until it has returned.
C5_StopFreezesSearch ==
    /\ [][stopRequested => /\ nodes' = nodes
                           /\ solutions' = solutions
                           /\ events' = events
                           /\ Rank' < Rank]_vars
    /\ [](stopRequested => Returned \/ ENABLED Search)

C5_Witness ==
    /\ Returned
    /\ stopRequested
    /\ Len(solutions) >= 1
    /\ Cardinality(ValidCollections) > Len(solutions)
    /\ Len(solutions) < maxSolutions

(* -------------- solvePuzzle from its entry, generation included ---------- *)
InitGen ==
    /\ \E pz \in GenPuzzles : SolverEntry(pz, MaxCap, FALSE)
    /\ stopRequested = FALSE
    /\ inbox = <<>>
    /\ handled = 0
    /\ AppMounted

Generate ==
    \/ GenPieceNext
    \/ GenRotate
    \/ GenShapeNext
    \/ GenRowTest
    \/ GenColTest
    \/ GenBody

NextGen == Generate \/ Search

SpecGen == InitGen /\ [][NextGen]_vars

\* solvePuzzle is synchronous code: it takes its next step while it has one
FairSpecGen == SpecGen /\ WF_vars(NextGen)

\* the lists produced step by step are those of generatePlacementsForPiece
GenerationAgrees ==
    \A k \in DOMAIN puzzle.pieces :
        (k < genPiece /\ puzzle.pieces[k].cells /= <<>>)
            => placementsById[puzzle.pieces[k].id]
                   = generatePlacementsForPiece(puzzle.pieces[k], puzzle.width,
                                                puzzle.height, BlockedOrFixed)

HasZeroCellPiece == \E k \in DOMAIN puzzle.pieces : puzzle.pieces[k].cells = <<>>

\* C8: for a puzzle with a piece definition of zero cells, solvePuzzle
\* terminates and yields zero solutions.
C8_ZeroCellsYieldNoSolution ==
    HasZeroCellPiece ~> (Returned /\ solutions = <<>>)

\* the k-quarter-turn image of a cell, by the rotation (x, y) -> (y, -x)
Turned(c, k) ==
    CASE k = 0 -> Cell(c.x, c.y)
      [] k = 1 -> Cell(c.y, 0 - c.x)
      [] k = 2 -> Cell(0 - c.x, 0 - c.y)
      [] k = 3 -> Cell(0 - c.y, c.x)

Abs(n) == IF n < 0 THEN 0 - n ELSE n

\* the masks of the legal placements of a piece: every translate of every
\* allowed rotation that lies on the board and misses the blocked cells
LegalMasks(piece, width, height, blockedMask) ==
    LET reach == MaxOf({Abs(piece.cells[i].x) : i \in DOMAIN piece.cells}
                       \cup {Abs(piece.cells[i].y) : i \in DOMAIN piece.cells})
        turns == IF piece.allowRotate THEN 0 .. 3 ELSE {0}
        Image(k, dx, dy) ==
            {Cell(Turned(piece.cells[i], k).x + dx, Turned(piece.cells[i], k).y + dy)
                 : i \in DOMAIN piece.cells}
        OnBoard(cs) == \A c \in cs : c.x \in 0 .. width - 1 /\ c.y \in 0 .. height - 1
        MaskOf(cs) == {c.y * width + c.x : c \in cs}
    IN  {MaskOf(Image(k, dx, dy)) :
             <<k, dx, dy>> \in
                 {t \in turns \X ((0 - reach) .. (width + reach))
                              \X ((0 - reach) .. (height + reach)) :
                      /\ OnBoard(Image(t[1], t[2], t[3]))
                      /\ MaskOf(Image(t[1], t[2], t[3])) \cap blockedMask = {}}}

\* the pieces whose list generatePlacementsForPiece has returned
GeneratedPieces == {k \in DOMAIN puzzle.pieces : k < genPiece}

ListOf(k) == placementsById[puzzle.pieces[k].id]

\* C9: for a piece with distinct cells the list returned is the complete set
\* of legal placements, each once: all translates of the allowed rotations
\* (no mirror image) on the board and off the blocked-or-fixed cells; each
\* mask has piece.cells.length bits, all below W*H, none blocked or fixed.
C9_PlacementsExact ==
    \A k \in GeneratedPieces :
        LET piece == puzzle.pieces[k]
            list == ListOf(k)
        IN  /\ {list[n].mask : n \in DOMAIN list}
                   = LegalMasks(piece, puzzle.width, puzzle.height, BlockedOrFixed)
            /\ \A n, n2 \in DOMAIN list : n < n2 => list[n].mask /= list[n2].mask
            /\ \A n \in DOMAIN list :
                   /\ list[n].pieceId = piece.id
                   /\ countBits(list[n].mask) = Len(piece.cells)
                   /\ list[n].mask \subseteq 0 .. puzzle.width * puzzle.height - 1
                   /\ list[n].mask \cap BlockedOrFixed = {}

\* a chiral piece has been generated where its mirror image would fit too
C9_Witness ==
    \E k \in GeneratedPieces :
        /\ puzzle.pieces[k].cells = Tetromino
        /\ puzzle.pieces[k].allowRotate
        /\ BlockedOrFixed = {}
        /\ {0, 1, puzzle.width + 1, puzzle.width + 2}
               \subseteq 0 .. puzzle.width * puzzle.height - 1
        /\ puzzle.width >= 3
        /\ Len(ListOf(k)) >= 1
        /\ \A n \in DOMAIN ListOf(k) :
               ListOf(k)[n].mask /= {0, 1, puzzle.width + 1, puzzle.width + 2}

\* C10: for every generated placement rowDelta[y] is the number of its cells
\* in row y and colDelta[x] the number in column x; both sum to the number of
\* cells of the piece.
C10_DeltasCountCells ==
    \A k \in GeneratedPieces :
        \A n \in DOMAIN ListOf(k) :
            LET p == ListOf(k)[n]
            IN  /\ \A y \in 0 .. puzzle.height - 1 :
                       p.rowDelta[y] = RowBits(p.mask, y, puzzle.width)
                /\ \A x \in 0 .. puzzle.width - 1 :
                       p.colDelta[x] = ColBits(p.mask, x, puzzle.width)
                /\ SumFn(p.rowDelta, puzzle.height) = Len(puzzle.pieces[k].cells)
                /\ SumFn(p.colDelta, puzzle.width) = Len(puzzle.pieces[k].cells)

\* a placement away from the origin, over two rows and two columns
C10_Witness ==
    \E k \in GeneratedPieces :
        \E n \in DOMAIN ListOf(k) :
            /\ ListOf(k)[n].rowDelta[puzzle.height - 1] >= 1
            /\ ListOf(k)[n].colDelta[puzzle.width - 1] >= 2
            /\ ListOf(k)[n].rowDelta[0] >= 1

(* ----------------------------- solver/worker.ts -------------------------- *)
\* The worker is one thread: onmessage takes the next message when the
\* handler of the one before has returned, and the handler of a start
\* message returns after solvePuzzle and the done message.
WorkerIdle == pc = "idle"

Pending == handled < Len(inbox)

\* Two puzzles a caller may send: two dominoes on a 2 x 2 board (two
\* solutions), one monomino beside a fixed cell on a 2 x 1 board (one).
DominoPuzzle ==
    Puzzle([width |-> 2, height |-> 2,
            rowTargets |-> [y \in 0 .. 1 |-> 2],
            colTargets |-> [x \in 0 .. 1 |-> 2]],
           {}, {}, <<PieceDef(1, Domino, 2, TRUE)>>)

MonominoPuzzle ==
    Puzzle([width |-> 2, height |-> 1,
            rowTargets |-> [y \in 0 .. 0 |-> 2],
            colTargets |-> [x \in 0 .. 1 |-> 1]],
           {}, {0}, <<PieceDef(1, Monomino, 1, FALSE)>>)

WorkerPuzzles == {DominoPuzzle, MonominoPuzzle}

\* The handler running does not look at the queue, so of the moments of a
\* search it is enough to post at two: when the handler has just taken the
\* start message, and when solvePuzzle has just returned.
PostingMoment == pc \in {"idle", "setup", "done"}

\* postMessage({type: "start", puzzle, maxSolutions}) by the page
PostStart ==
    /\ PostingMoment
    /\ Len(inbox) < MaxPosts
    /\ \E pz \in WorkerPuzzles, cap \in Caps :
           inbox' = Append(inbox, [type |-> "start", puzzle |-> pz,
                                   maxSolutions |-> cap])
    /\ UNCHANGED solverVars
    /\ UNCHANGED <<stopRequested, handled>>
    /\ UNCHANGED appVars

\* postMessage({type: "stop"}) by the page.  `searching` and `early` record,
\* for the properties only, whether a search was running when the message was
\* posted and whether that search had yet to visit its first node.
PostStop ==
    /\ PostingMoment
    /\ Len(inbox) < MaxPosts
    /\ inbox' = Append(inbox, [type |-> "stop",
                               searching |-> ~WorkerIdle,
                               early |-> pc = "setup"])
    /\ UNCHANGED solverVars
    /\ UNCHANGED <<stopRequested, handled>>
    /\ UNCHANGED appVars

\* onmessage, message.type === "stop"
WorkerStop ==
    /\ WorkerIdle
    /\ Pending
    /\ inbox[handled + 1].type = "stop"
    /\ stopRequested' = TRUE
    /\ handled' = handled + 1
    /\ UNCHANGED solverVars
    /\ UNCHANGED inbox
    /\ UNCHANGED appVars

\* mutant: the flag stays as the last stop message left it
FlagAtStart_Kept == stopRequested

\* stopRequested = false;
FlagAtStart == FALSE

\* onmessage, message.type === "start", up to the call of solvePuzzle and
\* through its placement generation
WorkerStart ==
    /\ WorkerIdle
    /\ Pending
    /\ inbox[handled + 1].type = "start"
    /\ stopRequested' = FlagAtStart
    /\ handled' = handled + 1
    /\ LET message == inbox[handled + 1]
       IN  /\ puzzle' = message.puzzle
           /\ maxSolutions' = message.maxSolutions
           /\ placementsById' = GeneratedPlacements(message.puzzle)
           /\ genPiece' = Len(message.puzzle.pieces) + 1
           /\ rowOcc' = Zeros(message.puzzle.height)
           /\ colOcc' = Zeros(message.puzzle.width)
    /\ hasProgress' = TRUE
    /\ pc' = "setup"
    /\ rotations' = <<>>
    /\ current' = <<>>
    /\ rotIdx' = 0
    /\ shapeIdx' = 1
    /\ offsetX' = 0
    /\ offsetY' = 0
    /\ placements' = <<>>
    /\ instances' = <<>>
    /\ usedPlacementIndices' = <<>>
    /\ stack' = <<>>
    /\ acc' = <<>>
    /\ solutions' = <<>>
    /\ nodes' = 0
    /\ now' = 0
    /\ lastReport' = 0
    /\ UNCHANGED <<events, inbox>>
    /\ UNCHANGED appVars

\* mutant: the done message reports the cap
DonePayload_Cap == [type |-> "done", solutions |-> maxSolutions]

\* const donePayload = {type: "done", solutions: solutions.length, elapsedMs}
DonePayload == [type |-> "done", solutions |-> Len(solutions)]

\* solvePuzzle has returned: ctx.postMessage(donePayload), the handler returns
WorkerDone ==
    /\ pc = "done"
    /\ events' = Append(events, DonePayload)
    /\ pc' = "idle"
    /\ UNCHANGED <<puzzle, maxSolutions, hasProgress, placementsById, stopRequested,
                   inbox, handled>>
    /\ UNCHANGED genVars
    /\ UNCHANGED dfsVars
    /\ UNCHANGED appVars

InitWorker ==
    /\ puzzle = MonominoPuzzle
    /\ maxSolutions = 1
    /\ hasProgress = TRUE
    /\ pc = "idle"
    /\ genPiece = 1
    /\ rotations = <<>>
    /\ current = <<>>
    /\ rotIdx = 0
    /\ shapeIdx = 1
    /\ offsetX = 0
    /\ offsetY = 0
    /\ placements = <<>>
    /\ placementsById = GeneratedPlacements(MonominoPuzzle)
    /\ instances = <<>>
    /\ rowOcc = Zeros(MonominoPuzzle.height)
    /\ colOcc = Zeros(MonominoPuzzle.width)
    /\ usedPlacementIndices = <<>>
    /\ stack = <<>>
    /\ acc = <<>>
    /\ solutions = <<>>
    /\ nodes = 0
    /\ now = 0
    /\ lastReport = 0
    /\ events = <<>>
    /\ stopRequested = FALSE
    /\ inbox = <<>>
    /\ handled = 0
    /\ AppMounted

NextWorker ==
    \/ PostStart
    \/ PostStop
    \/ WorkerStart
    \/ WorkerStop
    \/ Search
    \/ WorkerDone

SpecWorker == InitWorker /\ [][NextWorker]_vars

\* the search of the handler has returned, by exhaustion, cap or cancellation
SearchReturned == pc = "done"

\* a stop message posted while the search now in the handler was running,
\* before that search had visited a node
StopPostedEarly ==
    \E i \in handled + 1 .. Len(inbox) :
        /\ inbox[i].type = "stop"
        /\ inbox[i].searching
        /\ inbox[i].early

\* the space of the search was exhausted or its cap reached
RanToEnd ==
    \/ Len(solutions) >= maxSolutions
    \/ Len(solutions) = Cardinality(ValidCollections)

\* C6: a stop message posted while a search started by an earlier start
\* message is running sets the flag that this search polls, and the search
\* aborts before it has exhausted its space or reached its cap.
C6_StopCancelsRunningSearch ==
    (SearchReturned /\ StopPostedEarly) => (stopRequested /\ ~RanToEnd)

StartsHandled == Cardinality({i \in 1 .. handled : inbox[i].type = "start"})

DoneMessages == {i \in DOMAIN events : events[i].type = "done"}

\* the solution messages of the search whose done message is events[i]
SolutionMessagesOf(i) ==
    {j \in 1 .. i - 1 :
        /\ events[j].type = "solution"
        /\ \A d \in DoneMessages : ~(j < d /\ d < i)}

\* C7: for every start message handled the worker posts exactly one done
\* message, behind every progress and solution message of that search, and
\* its solutions field is the number of solution messages of that search.
C7_OneDonePerStart ==
    /\ Cardinality(DoneMessages) = StartsHandled - (IF WorkerIdle THEN 0 ELSE 1)
    /\ (WorkerIdle /\ events /= <<>>) => events[Len(events)].type = "done"
    /\ \A i \in DoneMessages :
           events[i].solutions = Cardinality(SolutionMessagesOf(i))

\* two searches are over: one ended at its cap with more to find, the other
\* by exhaustion; a progress message was posted
C7_Witness ==
    /\ WorkerIdle
    /\ StartsHandled = 2
    /\ \E i, j \in DoneMessages :
           /\ i < j
           /\ events[i].solutions /= events[j].solutions
           /\ events[i].solutions >= 1
           /\ events[j].solutions >= 1
    /\ \E k \in DOMAIN events : events[k].type = "progress"

(* --------------------- uniqueRotations on every small shape -------------- *)
\* every set of at most MaxShapeCells cells of a ShapeGrid x ShapeGrid grid
GridCells == {Cell(x, y) : x \in 0 .. ShapeGrid - 1, y \in 0 .. ShapeGrid - 1}

GridShapes == {S \in SUBSET GridCells : Cardinality(S) <= MaxShapeCells}

\* the cells of a set as a list, in the order of the descending bit number on
\* the grid: not the order normalizeCells sorts into
RECURSIVE ListOfCells(_)
ListOfCells(S) ==
    IF S = {} THEN <<>>
    ELSE LET c == CHOOSE d \in S :
                      \A e \in S : d.y * ShapeGrid + d.x >= e.y * ShapeGrid + e.x
         IN  <<c>> \o ListOfCells(S \ {c})

RotPuzzles ==
    {Puzzle([width |-> Width, height |-> Height,
             rowTargets |-> [y \in 0 .. Height - 1 |-> Width],
             colTargets |-> [x \in 0 .. Width - 1 |-> Height]],
            {}, {}, <<PieceDef(1, ListOfCells(S), 1, r)>>) :
         S \in GridShapes, r \in BOOLEAN}

InitRot ==
    /\ \E pz \in RotPuzzles : SolverEntry(pz, MaxCap, FALSE)
    /\ stopRequested = FALSE
    /\ inbox = <<>>
    /\ handled = 0
    /\ AppMounted

SpecRot == InitRot /\ [][Generate]_vars

\* uniqueRotations has just returned for the piece being generated
RotationsReturned == pc = "genShape" /\ shapeIdx = 1

TurnedSet(S, k) == {Turned(c, k) : c \in S}

\* B is a translate of A
SameShape(A, B) ==
    \E dx, dy \in (0 - 2 * ShapeGrid) .. (2 * ShapeGrid) :
        B = {Cell(c.x + dx, c.y + dy) : c \in A}

\* C11: uniqueRotations returns pairwise distinct normalized shapes: exactly
\* one for a shape invariant under a quarter turn and for any shape when
\* rotation is disabled, between 1 and 4 otherwise, and 4 exactly when the
\* shape has no rotational symmetry.
C11_RotationVariants ==
    RotationsReturned =>
        LET piece == puzzle.pieces[genPiece]
            S == Range(piece.cells)
            n == Len(rotations)
        IN  /\ n \in 1 .. 4
            /\ \A i, j \in 1 .. n :
                   i < j => Range(rotations[i]) /= Range(rotations[j])
            /\ \A i \in 1 .. n :
                   /\ \E k \in 0 .. 3 :
                          SameShape(TurnedSet(S, k), Range(rotations[i]))
                   /\ Len(rotations[i]) = Len(piece.cells)
                   /\ S /= {} =>
                          /\ \E c \in Range(rotations[i]) : c.x = 0
                          /\ \E c \in Range(rotations[i]) : c.y = 0
                          /\ \A c \in Range(rotations[i]) : c.x >= 0 /\ c.y >= 0
            /\ (~piece.allowRotate \/ SameShape(S, TurnedSet(S, 1))) => n = 1
            /\ n = 4 <=> (piece.allowRotate /\ ~SameShape(S, TurnedSet(S, 2)))

\* the L tromino, which has no rotational symmetry, has got its four variants
C11_Witness ==
    /\ RotationsReturned
    /\ puzzle.pieces[genPiece].allowRotate
    /\ Range(puzzle.pieces[genPiece].cells) = {Cell(1, 1), Cell(1, 2), Cell(2, 2)}
    /\ Len(rotations) = 4

(* ------------------------ the two examples on 4 x 4 ---------------------- *)
Square == <<Cell(0, 0), Cell(1, 0), Cell(0, 1), Cell(1, 1)>>

\* 4 x 4, all cells empty, one 2 x 2 square piece with count 4
ExampleOn(rowTargets, colTargets, allowRotate) ==
    Puzzle([width |-> 4, height |-> 4,
            rowTargets |-> [y \in 0 .. 3 |-> rowTargets[y + 1]],
            colTargets |-> [x \in 0 .. 3 |-> colTargets[x + 1]]],
           {}, {}, <<PieceDef(1, Square, 4, allowRotate)>>)

FeasibleExamples ==
    {ExampleOn(<<4, 4, 4, 4>>, <<4, 4, 4, 4>>, r) : r \in BOOLEAN}

\* rowTargets = [4,4,4,3]; the column targets sum to 16 or to 14
InfeasibleExamples ==
    {ExampleOn(<<4, 4, 4, 3>>, ct, r) :
         ct \in {<<4, 4, 4, 4>>, <<4, 4, 3, 3>>}, r \in BOOLEAN}

\* caps larger than 1
ExampleCaps == {2, MaxCap}

InitExamples ==
    /\ \E pz \in FeasibleExamples \cup InfeasibleExamples, cap \in ExampleCaps :
           SolverEntry(pz, cap, FALSE)
    /\ stopRequested = FALSE
    /\ inbox = <<>>
    /\ handled = 0
    /\ AppMounted

SpecExamples == InitExamples /\ [][NextGen]_vars

Quadrants == {{0, 1, 4, 5}, {2, 3, 6, 7}, {8, 9, 12, 13}, {10, 11, 14, 15}}

\* C12: on the 4 x 4 board with all targets 4 and a 2 x 2 square piece with
\* count 4, solvePuzzle returns exactly one solution, the four quadrants.
C12_FourQuadrants ==
    puzzle \in FeasibleExamples =>
        /\ Len(solutions) <= 1
        /\ Returned =>
               /\ Len(solutions) = 1
               /\ Len(solutions[1]) = 4
               /\ {solutions[1][k].mask : k \in 1 .. 4} = Quadrants

C12_Witness ==
    /\ puzzle \in FeasibleExamples
    /\ Returned
    /\ Len(solutions) = 1
    /\ maxSolutions > 1

(* ------------------- row and column targets of unequal sums -------------- *)
SumsDiffer ==
    SumFn(puzzle.rowTargets, puzzle.height) /= SumFn(puzzle.colTargets, puzzle.width)

\* a board asking for every cell, but for one cell less in one row or in one
\* column
MismatchBoards ==
    UNION {{[b EXCEPT !.rowTargets[y] = @ - 1] : y \in 0 .. b.height - 1}
           \cup {[b EXCEPT !.colTargets[x] = @ - 1] : x \in 0 .. b.width - 1}
               : b \in FullBoards}

MismatchPieceLists ==
    {<<PieceDef(1, sh, c, TRUE)>> : sh \in {Monomino, Domino, NoCells},
                                    c \in 1 .. MaxCount}
    \cup {<<PieceDef(1, Domino, 1, TRUE), PieceDef(2, sh, 1, TRUE)>> :
              sh \in {Monomino, NoCells}}

MismatchPuzzles ==
    {Puzzle(b, {}, fixedMask, ps) :
         b \in MismatchBoards, fixedMask \in {{}, {0}}, ps \in MismatchPieceLists}

InitMismatch ==
    /\ \E pz \in MismatchPuzzles : SolverEntry(pz, MaxCap, FALSE)
    /\ stopRequested = FALSE
    /\ inbox = <<>>
    /\ handled = 0
    /\ AppMounted

SpecMismatch == InitMismatch /\ [][NextGen]_vars

\* solvePuzzle is synchronous code: it takes its next step while it has one
FairSpecMismatch == SpecMismatch /\ WF_vars(NextGen)

\* no solution is ever collected or reported when the sums differ
MismatchNeverSolved == SumsDiffer => (solutions = <<>> /\ events = <<>>)

\* C13: for every puzzle whose row targets and column targets have different
\* sums, solvePuzzle terminates normally and returns zero solutions.
C13_MismatchReturnsNothing ==
    SumsDiffer ~> (Returned /\ solutions = <<>>)

\* the depth of the recursion: dfs(index, ...) is called with index <= N
DepthBounded == \A k \in DOMAIN stack : stack[k].index <= Len(instances)

\* C14: without cancellation solvePuzzle always terminates, whether or not a
\* solution exists, and the recursion is never deeper than the number of
\* piece instances.
C14_SolveTerminates == []DepthBounded /\ <>Returned

\* What remains of C13 and C14 for piece definitions of at least one cell
\* (checked under FairSpecMismatch and FairSpecGen).
MismatchOfCellsReturnsNothing ==
    (SumsDiffer /\ ~HasZeroCellPiece) ~> (Returned /\ solutions = <<>>)

PiecesOfCellsTerminate == ~HasZeroCellPiece ~> Returned

(* ------------------------- emission of solutions ------------------------- *)
IsSolutionEvent(e) == e.type = "solution"

\* the solutions passed to onSolution so far, in order
Reported ==
    LET es == SelectSeq(events, IsSolutionEvent)
    IN  [k \in DOMAIN es |-> es[k].solution]

\* mutant: solutions.push(acc), every element being the accumulator itself
SolutionAt_Shared(k) == acc

\* solutions[k - 1], a copy of the accumulator taken when it was found
SolutionAt(k) == solutions[k]

CallersOf(st) == 1 .. (IF st = <<>> THEN 0 ELSE Len(st) - 1)

AppliedBy(st, n) == CurrentPlacements(st[n].index)[st[n].i + 1]

\* the shared state as it was when the top frame of st was called: what its
\* callers have applied, and nothing else
AccAtCall(st) == [n \in CallersOf(st) |-> AppliedBy(st, n)]

RECURSIVE SumOfRowDeltas(_, _, _)
SumOfRowDeltas(st, n, r) ==
    IF n = 0 THEN 0
    ELSE AppliedBy(st, n).rowDelta[r] + SumOfRowDeltas(st, n - 1, r)

RECURSIVE SumOfColDeltas(_, _, _)
SumOfColDeltas(st, n, c) ==
    IF n = 0 THEN 0
    ELSE AppliedBy(st, n).colDelta[c] + SumOfColDeltas(st, n - 1, c)

RowOccAtCall(st) ==
    [r \in 0 .. puzzle.height - 1 |->
        computeInitialCounts(puzzle.fixedMask, puzzle.width, puzzle.height).row[r]
            + SumOfRowDeltas(st, Cardinality(CallersOf(st)), r)]

ColOccAtCall(st) ==
    [c \in 0 .. puzzle.width - 1 |->
        computeInitialCounts(puzzle.fixedMask, puzzle.width, puzzle.height).col[c]
            + SumOfColDeltas(st, Cardinality(CallersOf(st)), c)]

UsedAtCall(st) ==
    [j \in 0 .. Len(instances) - 1 |->
        IF j + 1 \in CallersOf(st) THEN st[j + 1].i ELSE 0 - 1]

SharedStateIs(st) ==
    /\ acc = AccAtCall(st)
    /\ rowOcc = RowOccAtCall(st)
    /\ colOcc = ColOccAtCall(st)
    /\ usedPlacementIndices = UsedAtCall(st)

\* C16: when dfs(index, ...) returns, by exhaustion, cap or cancellation,
\* rowOcc, colOcc, acc and usedPlacementIndices are what they were when it
\* was called; at the end of solvePuzzle the counters are the fixed-cell
\* counts and the accumulator is empty.
C16_StateRestored ==
    /\ [](pc \in {"call", "loop", "ret", "done"} => SharedStateIs(stack))
    /\ [][(pc \in {"call", "loop", "ret"} /\ Len(stack') >= Len(stack)) =>
              \A n \in CallersOf(stack) : stack'[n] = stack[n]]_vars
    /\ [](Returned =>
              /\ acc = <<>>
              /\ rowOcc = computeInitialCounts(puzzle.fixedMask, puzzle.width,
                                               puzzle.height).row
              /\ colOcc = computeInitialCounts(puzzle.fixedMask, puzzle.width,
                                               puzzle.height).col)

\* a call below the root, made with two placements applied, is returning
C16_Witness ==
    /\ pc = "ret"
    /\ Len(stack) = 3
    /\ Len(acc) = 2
    /\ Top.i > 0

(* ------------------- the search without the feasibility prune ----------- *)
\* dfs as in solve.ts, less lines 142-145 and the cap: the list of the
\* solutions of the subtree of one call, in the order of discovery.
RECURSIVE DfsUnpruned(_, _, _, _, _, _)
RECURSIVE LoopUnpruned(_, _, _, _, _, _, _)

DfsUnpruned(index, occupiedMask, rOcc, cOcc, a, used) ==
    IF index = Len(instances)
    THEN IF /\ \A r \in DOMAIN rOcc : rOcc[r] = puzzle.rowTargets[r]
            /\ \A c \in DOMAIN cOcc : cOcc[c] = puzzle.colTargets[c]
         THEN <<a>>
         ELSE <<>>
    ELSE LET prev == instances[index + 1].prevSamePieceIndex
         IN  LoopUnpruned(index, occupiedMask, rOcc, cOcc, a, used,
                          IF prev >= 0 THEN used[prev] + 1 ELSE 0)

LoopUnpruned(index, occupiedMask, rOcc, cOcc, a, used, i) ==
    IF i >= Len(CurrentPlacements(index)) THEN <<>>
    ELSE LET placement == CurrentPlacements(index)[i + 1]
             skip == \/ placement.mask \cap occupiedMask /= {}
                     \/ \E r \in DOMAIN rOcc :
                            rOcc[r] + placement.rowDelta[r] > puzzle.rowTargets[r]
                     \/ \E c \in DOMAIN cOcc :
                            cOcc[c] + placement.colDelta[c] > puzzle.colTargets[c]
         IN  (IF skip THEN <<>>
              ELSE DfsUnpruned(index + 1, occupiedMask \cup placement.mask,
                               [r \in DOMAIN rOcc |-> rOcc[r] + placement.rowDelta[r]],
                               [c \in DOMAIN cOcc |-> cOcc[c] + placement.colDelta[c]],
                               Append(a, placement),
                               [used EXCEPT ![index] = i]))
             \o LoopUnpruned(index, occupiedMask, rOcc, cOcc, a, used, i + 1)

\* what solvePuzzle returns without the prune: the first maxSolutions of them
UnprunedSolutions ==
    LET all == DfsUnpruned(0, puzzle.fixedMask,
                   computeInitialCounts(puzzle.fixedMask, puzzle.width,
                                        puzzle.height).row,
                   computeInitialCounts(puzzle.fixedMask, puzzle.width,
                                        puzzle.height).col,
                   <<>>, [j \in 0 .. Len(instances) - 1 |-> 0 - 1])
    IN  SubSeq(all, 1, IF Len(all) < maxSolutions THEN Len(all) ELSE maxSolutions)

\* dfs is at its entry and the prune is about to cut the branch
AboutToPrune ==
    /\ pc = "call"
    /\ ~ShouldStop
    /\ Top.index < Len(instances)
    /\ ~CapReached
    /\ ~canReachTargets(rowOcc, colOcc, puzzle.rowTargets, puzzle.colTargets,
                        instances, Top.index)

\* C17: the prune never cuts a branch that contains a solution: the search
\* returns the same solution list as the same search without the prune.
C17_PruneIsSafe ==
    /\ AboutToPrune =>
           DfsUnpruned(Top.index, Top.occupiedMask, rowOcc, colOcc, acc,
                       usedPlacementIndices) = <<>>
    /\ (Returned /\ ~stopRequested) => solutions = UnprunedSolutions

\* the prune has cut a branch in which there were placements to try
C17_Witness ==
    /\ pc = "ret"
    /\ ~stopRequested
    /\ nodes >= 1
    /\ Top.index < Len(instances)
    /\ ~CapReached
    /\ ~canReachTargets(rowOcc, colOcc, puzzle.rowTargets, puzzle.colTargets,
                        instances, Top.index)
    /\ \E i \in 1 .. Len(CurrentPlacements(Top.index)) :
           LET placement == CurrentPlacements(Top.index)[i]
           IN  ~Conflicts(placement, Top.occupiedMask) /\ ~OverCapacity(placement)

\* the prune cuts at the root call or nowhere
PruneOnlyAtRoot == AboutToPrune => Len(stack) = 1

(* --------------------------- symmetry breaking --------------------------- *)
SameInstancesBefore(k) ==
    {j \in 0 .. k - 1 : instances[j + 1].piece.id = instances[k + 1].piece.id}

\* the nearest earlier instance of the same piece id in the sorted order, or -1
NearestSameBefore(k) ==
    IF SameInstancesBefore(k) = {} THEN 0 - 1
    ELSE CHOOSE j \in SameInstancesBefore(k) :
             \A j2 \in SameInstancesBefore(k) : j2 <= j

FirstIndexTried(k) ==
    IF NearestSameBefore(k) >= 0
    THEN usedPlacementIndices[NearestSameBefore(k)] + 1
    ELSE 0

\* C18: for an instance with an earlier instance of the same piece id the
\* placements tried start one past the index the nearest such instance uses
\* (otherwise at 0), so in every branch the indices used by same-piece
\* instances, in sorted order, are strictly increasing.
C18_SymmetryBreaking ==
    /\ [](\A k \in 0 .. Len(instances) - 1 :
              instances[k + 1].prevSamePieceIndex = NearestSameBefore(k))
    /\ [][(pc = "call" /\ pc' = "loop") =>
              stack'[Len(stack')].i = FirstIndexTried(Top.index)]_vars
    /\ [](pc = "loop" => Top.i >= FirstIndexTried(Top.index))
    /\ [](\A j, k \in 0 .. Len(instances) - 1 :
              (/\ j < k
               /\ instances[j + 1].piece.id = instances[k + 1].piece.id
               /\ usedPlacementIndices[j] >= 0
               /\ usedPlacementIndices[k] >= 0)
                  => usedPlacementIndices[j] < usedPlacementIndices[k])

\* two instances of one piece are placed, the second past a skipped index
C18_Witness ==
    /\ Len(instances) >= 2
    /\ instances[1].piece.id = instances[2].piece.id
    /\ usedPlacementIndices[0] >= 1
    /\ usedPlacementIndices[1] > usedPlacementIndices[0] + 1

(* -------------------------------- capacity ------------------------------- *)
\* the fixed cells do not exceed the targets
FixedWithinTargets ==
    LET initialCounts ==
            computeInitialCounts(puzzle.fixedMask, puzzle.width, puzzle.height)
    IN  /\ \A r \in 0 .. puzzle.height - 1 : initialCounts.row[r] <= puzzle.rowTargets[r]
        /\ \A c \in 0 .. puzzle.width - 1 : initialCounts.col[c] <= puzzle.colTargets[c]

\* C19: when the fixed-cell counts do not exceed the targets, in every state
\* of the search rowOcc[r] <= rowTargets[r] and colOcc[c] <= colTargets[c].
C19_CapacityRespected ==
    (FixedWithinTargets /\ pc \in {"call", "loop", "ret", "done"}) =>
        /\ \A r \in 0 .. puzzle.height - 1 : rowOcc[r] <= puzzle.rowTargets[r]
        /\ \A c \in 0 .. puzzle.width - 1 : colOcc[c] <= puzzle.colTargets[c]

\* with a placement applied and a cell fixed, the loop has just skipped a
\* placement that is free but would exceed a column target only
C19_Witness ==
    /\ FixedWithinTargets
    /\ puzzle.fixedMask /= {}
    /\ pc = "loop"
    /\ Len(stack) >= 2
    /\ Top.i >= 1
    /\ LET skipped == CurrentPlacements(Top.index)[Top.i]
       IN  /\ ~Conflicts(skipped, Top.occupiedMask)
           /\ OverCapacity(skipped)
           /\ \A r \in 0 .. puzzle.height - 1 :
                  rowOcc[r] + skipped.rowDelta[r] <= puzzle.rowTargets[r]

\* C20: in the infeasible example (rowTargets = [4,4,4,3], column targets of
\* another sum) the search is cut off at the root: solvePuzzle returns having
\* counted a single node and without applying any placement.
C20_CutOffAtRoot ==
    puzzle \in InfeasibleExamples =>
        /\ acc = <<>>
        /\ Len(stack) <= 1
        /\ Returned => (nodes = 1 /\ solutions = <<>>)

\* the nodes counted by a search that has returned
NodesOfInfeasibleExamples ==
    (puzzle \in InfeasibleExamples /\ Returned) => (nodes \in {23, 30} /\ solutions = <<>>)

(* ------------------------ progress snapshots ---------------------------- *)
\* solvePuzzle called with an onProgress callback
\* the puzzles asking for every cell of a board with no fixed cell
ProgressPuzzles ==
    {pz \in Puzzles :
        /\ pz.fixedMask = {}
        /\ \A y \in 0 .. pz.height - 1 : pz.rowTargets[y] = pz.width
        /\ \A x \in 0 .. pz.width - 1 : pz.colTargets[x] = pz.height}

InitProgress ==
    /\ \E pz \in ProgressPuzzles : SolverStart(pz, MaxCap, TRUE)
    /\ stopRequested = FALSE
    /\ inbox = <<>>
    /\ handled = 0
    /\ AppMounted

SpecProgress == InitProgress /\ [][Search]_vars

IsProgressEvent(e) == e.type = "progress"

\* the onProgress calls of the run so far, in order
ProgressCalls == SelectSeq(events, IsProgressEvent)

\* the step calls onProgress
CallsOnProgress ==
    /\ Len(events') > Len(events)
    /\ IsProgressEvent(events'[Len(events) + 1])

\* C21: within one solvePuzzle run any two consecutive onProgress calls are
\* more than 100 ms of wall-clock time apart, node counts strictly increase
\* and solution counts do not decrease from one snapshot to the next, and
\* each snapshot carries the node count and the number of solutions found
\* at the moment of the call.
C21_ProgressThrottled ==
    /\ [](\A k \in 1 .. Len(ProgressCalls) - 1 :
             /\ ProgressCalls[k + 1].at - ProgressCalls[k].at > ProgressInterval
             /\ ProgressCalls[k + 1].nodes > ProgressCalls[k].nodes
             /\ ProgressCalls[k + 1].solutions >= ProgressCalls[k].solutions)
    /\ [][CallsOnProgress =>
             \A k \in {Len(events) + 1} :
                 /\ events'[k].at = now'
                 /\ events'[k].nodes = nodes'
                 /\ events'[k].solutions = Len(solutions)]_vars

\* two snapshots of one run, the later one with more solutions
C21_Witness ==
    /\ Len(ProgressCalls) >= 2
    /\ ProgressCalls[2].solutions > ProgressCalls[1].solutions
    /\ ProgressCalls[2].nodes > ProgressCalls[1].nodes + 1

(* --------------------- consistency of the search state ------------------ *)
\* dfs(index, occupiedMask, acc) is being entered
DfsEntry == pc = "call"

MasksOf(a) == UNION {a[k].mask : k \in DOMAIN a}

\* C23: at every entry of dfs(index, occupiedMask, acc), acc holds exactly
\* index placements, the k-th belonging to the piece of instance k,
\* occupiedMask is fixedMask OR-ed with the masks in acc, rowOcc[r] and
\* colOcc[c] are the numbers of occupiedMask bits in row r and column c, and
\* usedPlacementIndices[j] is a valid placement index for every j < index
\* and -1 for every j >= index.
C23_SearchStateConsistent ==
    DfsEntry =>
        /\ Len(acc) = Top.index
        /\ \A k \in DOMAIN acc : acc[k].pieceId = instances[k].piece.id
        /\ Top.occupiedMask = puzzle.fixedMask \cup MasksOf(acc)
        /\ \A r \in 0 .. puzzle.height - 1 :
               rowOcc[r] = RowBits(Top.occupiedMask, r, puzzle.width)
        /\ \A c \in 0 .. puzzle.width - 1 :
               colOcc[c] = ColBits(Top.occupiedMask, c, puzzle.width)
        /\ \A j \in 0 .. Len(instances) - 1 :
               IF j < Top.index
               THEN usedPlacementIndices[j] \in 0 .. Len(CurrentPlacements(j)) - 1
               ELSE usedPlacementIndices[j] = 0 - 1

\* an entry two levels down, beside a fixed cell, with an instance left
C23_Witness ==
    /\ DfsEntry
    /\ Top.index = 2
    /\ Len(instances) = 3
    /\ puzzle.fixedMask /= {}
    /\ usedPlacementIndices[1] > 0

(* ------------------ the cancellation flag at a start -------------------- *)
\* The handler has taken a start message and solvePuzzle has generated its
\* placements: the state WorkerStart leaves.  inbox and handled count from
\* the first message posted after that start message.
InitQueued ==
    /\ SolverStart(MonominoPuzzle, 1, TRUE)
    /\ stopRequested = FALSE
    /\ inbox = <<>>
    /\ handled = 0
    /\ AppMounted

SpecQueued == InitQueued /\ [][NextWorker]_vars

\* the handler has just taken a start message
SearchBegins == pc = "setup"

\* a stop message was handled before the start message of this search
StopHandledBefore ==
    \E i \in 1 .. handled - 1 : inbox[i].type = "stop"

\* C24: every search in the worker begins with the cancellation flag
\* cleared: a stop message handled before a start message, posted while the
\* worker was idle or queued behind an earlier search, never cancels the
\* search started by that later start message.
C24_SearchStartsCleared ==
    /\ SearchBegins => ~stopRequested
    /\ (SearchReturned /\ StopHandledBefore) => RanToEnd

\* a stop message posted during the first search and handled after it, then
\* a start message whose search has run to its end
C24_Witness ==
    /\ SearchReturned
    /\ handled = 2
    /\ inbox[1].type = "stop"
    /\ inbox[1].searching
    /\ inbox[2].type = "start"
    /\ Len(solutions) >= 1
    /\ nodes > 1

(* -------------------------------- App.tsx ------------------------------- *)
\* MAX_SOLUTIONS = 200: no search of the App's puzzles reaches it
AppCap == MaxCap

\* one monomino for the second column of a 2 x 1 board (one solution, the
\* first column being over its target)
CornerPuzzle ==
    Puzzle([width |-> 2, height |-> 1,
            rowTargets |-> [y \in 0 .. 0 |-> 1],
            colTargets |-> [x \in 0 .. 1 |-> x]],
           {}, {}, <<PieceDef(1, Monomino, 1, FALSE)>>)

\* puzzleDefinition at the click
AppPuzzles == {MonominoPuzzle, CornerPuzzle}

\* canSearch, for a puzzle that passes the validation and has pieces
canSearch == ~running

\* handleStartSearch, the button being enabled.  The worker does not look at
\* its queue while a search runs, so the clicks during a search are taken at
\* its first and last moment; the messages of the search reach the App at
\* any time after they are posted.
HandleStartSearch ==
    /\ PostingMoment
    /\ Len(inbox) < MaxClicks
    /\ canSearch
    /\ appSolutions' = <<>>
    /\ running' = TRUE
    /\ \E pz \in AppPuzzles :
           inbox' = Append(inbox, [type |-> "start", puzzle |-> pz,
                                   maxSolutions |-> AppCap])
    /\ UNCHANGED solverVars
    /\ UNCHANGED <<stopRequested, handled, delivered>>

\* handleStopSearch: the stop button is shown while progress.running
HandleStopSearch ==
    /\ PostingMoment
    /\ Len(inbox) < MaxClicks
    /\ running
    /\ inbox' = Append(inbox, [type |-> "stop",
                               searching |-> ~WorkerIdle,
                               early |-> pc = "setup"])
    /\ running' = FALSE
    /\ UNCHANGED solverVars
    /\ UNCHANGED <<stopRequested, handled, appSolutions, delivered>>

\* worker.onmessage of the App takes the next message of the worker.  An
\* entry of appSolutions keeps, beside the solution, the position of the
\* message that brought it (for the properties only).
AppOnMessage ==
    /\ delivered < Len(events)
    /\ delivered' = delivered + 1
    /\ LET message == events[delivered + 1]
       IN  /\ appSolutions' =
                  IF message.type = "solution"
                  THEN Append(appSolutions, [solution |-> message.solution,
                                             message |-> delivered + 1])
                  ELSE appSolutions
           /\ running' = IF message.type = "done" THEN FALSE ELSE running
    /\ UNCHANGED solverVars
    /\ UNCHANGED <<stopRequested, inbox, handled>>

NextApp ==
    \/ HandleStartSearch
    \/ HandleStopSearch
    \/ AppOnMessage
    \/ WorkerStart
    \/ WorkerStop
    \/ Search
    \/ WorkerDone

SpecApp == InitWorker /\ [][NextApp]_vars

StartsPosted == Cardinality({i \in DOMAIN inbox : inbox[i].type = "start"})

\* which search posted events[k]: the worker posts one done message at the
\* end of each search
SearchOf(k) == 1 + Cardinality({d \in DoneMessages : d < k})

\* C22: every solution in the App's solutions list was produced by the
\* search of the most recent start message, and no start message is posted
\* while an earlier search has not yet posted its done message.
C22_AppShowsCurrentSearch ==
    /\ \A k \in DOMAIN appSolutions :
           SearchOf(appSolutions[k].message) = StartsPosted
    /\ StartsPosted <= Cardinality(DoneMessages) + 1

\* the two halves of C22, each on its own
ListOfCurrentSearch ==
    \A k \in DOMAIN appSolutions :
        SearchOf(appSolutions[k].message) = StartsPosted

OneSearchAtATime == StartsPosted <= Cardinality(DoneMessages) + 1
====
